---------------------------- MODULE Spec2Model ----------------------------
(***************************************************************************)
(* RFM customer segmentation (src/Customer_Segmentation_RFM_Analysis.py,   *)
(* src/RFM_Analysis.py: the two scripts run the same pipeline).            *)
(*                                                                         *)
(* The script is a straight-line batch run; one action per STEP block,    *)
(* and two per dashboard STEP, which shows its figure (plt.show()) while    *)
(* the table carries the plotting columns and removes them afterwards.     *)
(* A Python exception ends the run: pc = "failed" and err names it.        *)
(*                                                                         *)
(* Numbers: Monetary and Price are whole currency units, quantile values   *)
(* are kept exactly as four times their value (the linear interpolation    *)
(* at 0.25/0.5/0.75 only produces quarters).                               *)
(***************************************************************************)
EXTENDS Integers, Sequences, FiniteSets, TLC

VARIABLES pc,        \* the STEP the script has completed, or "failed"
          err,       \* the exception that ended the run, "none" otherwise
          df,        \* the raw rows read from the CSV
          df_clean,  \* the working copy Step 2 filters
          snapshot_date,
          rfm,       \* the per-customer table: Customer ID -> row (column -> value)
          row,       \* get_segment's argument (SpecSegment)
          result,    \* get_segment's return value (SpecSegment)
          csv        \* rfm_analysis_results.csv, "none" until it is written

vars == <<pc, err, df, df_clean, snapshot_date, rfm, row, result, csv>>

\* pandas' missing value (NaN / NaT / None) in a numeric or categorical cell
NaN == 0

-----------------------------------------------------------------------------
(* Bounds *)

\* largest customer population of the scoring specification
MaxCust == 4

\* largest number of raw rows of the pipeline specification
MaxRows == 2


-----------------------------------------------------------------------------
(* Column helpers *)

Range(f) == {f[x] : x \in DOMAIN f}

\* a column of the table, as a function Customer ID -> value
Column(t, c) == [i \in DOMAIN t |-> t[i][c]]

\* the k-th smallest value (1-based) of a non-empty column, ties counted
Kth(col, k) ==
    CHOOSE v \in Range(col) :
        /\ Cardinality({i \in DOMAIN col : col[i] < v}) < k
        /\ k <= Cardinality({i \in DOMAIN col : col[i] <= v})

ColMin(col) == CHOOSE v \in Range(col) : \A w \in Range(col) : v <= w
ColMax(col) == CHOOSE v \in Range(col) : \A w \in Range(col) : w <= v

\* Series.quantile(k/4) with linear interpolation, times 4:
\* position (n-1)*k/4 between the order statistics around it
Quantile4(col, k) ==
    LET n  == Cardinality(DOMAIN col)
        lo == ((n - 1) * k) \div 4
        fr == ((n - 1) * k) % 4
    IN  IF fr = 0
        THEN 4 * Kth(col, lo + 1)
        ELSE 4 * Kth(col, lo + 1) + fr * (Kth(col, lo + 2) - Kth(col, lo + 1))

\* pandas refuses bin edges that decrease ("bins must increase monotonically")
\* or repeat ("Bin edges must be unique"): both raise ValueError
BinsRaise(bins) ==
    \E i \in 1..(Len(bins) - 1) : bins[i + 1] <= bins[i]

\* _bins_to_cuts, right=True, include_lowest=True: the id of x is the number of
\* edges strictly below it (searchsorted side="left"), the lowest edge itself
\* goes to the first bin, and ids 0 and len(bins) (outside all bins) give NaN
BinLabel(x, bins, labels) ==
    LET below == Cardinality({i \in 1..Len(bins) : bins[i] < x})
        id    == IF x = bins[1] THEN 1 ELSE below
    IN  IF id = 0 \/ id = Len(bins) THEN NaN ELSE labels[id]

-----------------------------------------------------------------------------
(* STEP 2: cleaning *)

\* A DataFrame is a function from its index labels to rows; filtering keeps
\* the rows at the labels I, under their labels.
Keep(d, I) == [i \in I |-> d[i]]

IsLeap(y) == (y % 4 = 0 /\ y % 100 # 0) \/ y % 400 = 0

DaysInMonth(y, m) ==
    IF m = 2 THEN (IF IsLeap(y) THEN 29 ELSE 28)
    ELSE IF m \in {4, 6, 9, 11} THEN 30 ELSE 31

RECURSIVE DaysBeforeMonth(_, _)
DaysBeforeMonth(y, m) ==
    IF m = 1 THEN 0 ELSE DaysBeforeMonth(y, m - 1) + DaysInMonth(y, m - 1)

\* days from 1 January of year 1 to the date (proleptic Gregorian)
DayNumber(y, m, d) ==
    365 * (y - 1) + ((y - 1) \div 4) - ((y - 1) \div 100) + ((y - 1) \div 400)
      + DaysBeforeMonth(y, m) + (d - 1)

\* minutes from 1 January of year 1, 00:00
Minutes(y, m, d, H, Mi) == (DayNumber(y, m, d) * 24 + H) * 60 + Mi

\* pd.to_datetime(text, format='%d/%m/%Y %H:%M', errors='coerce') on the text
\* "d/m/Y H:M", given by its five numbers: the timestamp in minutes, or NaT
\* when the numbers are no calendar date and time of day, or the time is
\* outside the nanosecond Timestamp range (1677-09-21 00:12:43 to
\* 2262-04-11 23:47:16)
to_datetime(s) ==
    LET d == s[1]  m == s[2]  y == s[3]  H == s[4]  Mi == s[5]
    IN  IF /\ m \in 1..12
           /\ y \in 1..9999
           /\ d >= 1
           /\ d <= DaysInMonth(y, m)
           /\ H \in 0..23
           /\ Mi \in 0..59
           /\ Minutes(y, m, d, H, Mi) >= Minutes(1677, 9, 21, 0, 13)
           /\ Minutes(y, m, d, H, Mi) <= Minutes(2262, 4, 11, 23, 47)
        THEN Minutes(y, m, d, H, Mi)
        ELSE NaN

\* df_clean = df_clean.dropna(subset=['Customer ID'])
HasCustomer(r) == r["CustomerID"] # NaN
\* >= in place of >: zero quantities kept
PositiveQuantity_NonNegative(r) == r["Quantity"] >= 0

\* df_clean = df_clean[df_clean['Quantity'] > 0]
PositiveQuantity(r) == r["Quantity"] > 0
\* df_clean = df_clean[df_clean['Price'] > 0]
PositivePrice(r) == r["Price"] > 0
\* df_clean.dropna(subset=['InvoiceDate']), after the conversion
HasDate(r) == r["InvoiceDate"] # NaN

\* the TotalSales column and the converted InvoiceDate column
WithSalesAndDate(d) ==
    [i \in DOMAIN d |->
        [CustomerID  |-> d[i]["CustomerID"],
         Invoice     |-> d[i]["Invoice"],
         Quantity    |-> d[i]["Quantity"],
         Price       |-> d[i]["Price"],
         TotalSales  |-> d[i]["Quantity"] * d[i]["Price"],
         InvoiceDate |-> to_datetime(d[i]["InvoiceDate"])]]

\* STEP 2 without the dropna on InvoiceDate: coerced NaT rows stay
CleanStep_KeepBadDates(d) ==
    LET d1 == Keep(d, {i \in DOMAIN d : HasCustomer(d[i])})
        d2 == Keep(d1, {i \in DOMAIN d1 : PositiveQuantity(d1[i])})
        d3 == Keep(d2, {i \in DOMAIN d2 : PositivePrice(d2[i])})
    IN  WithSalesAndDate(d3)

\* The STEP 2 block on the raw table; the dropna on InvoiceDate runs only
\* when some date failed, which leaves the same table as running it always.
CleanStep(d) ==
    LET d1 == Keep(d, {i \in DOMAIN d : HasCustomer(d[i])})
        d2 == Keep(d1, {i \in DOMAIN d1 : PositiveQuantity(d1[i])})
        d3 == Keep(d2, {i \in DOMAIN d2 : PositivePrice(d2[i])})
        d4 == WithSalesAndDate(d3)
        failed_dates == Cardinality({i \in DOMAIN d4 : ~HasDate(d4[i])})
    IN  IF failed_dates > 0 THEN Keep(d4, {i \in DOMAIN d4 : HasDate(d4[i])}) ELSE d4

-----------------------------------------------------------------------------
(* STEP 3: RFM metrics *)

MinutesPerDay == 1440

MaxOf(S) == CHOOSE v \in S : \A w \in S : w <= v

RECURSIVE SumSales(_, _)
SumSales(d, I) ==
    IF I = {} THEN 0
    ELSE LET i == CHOOSE j \in I : TRUE
         IN  d[i]["TotalSales"] + SumSales(d, I \ {i})

\* the snapshot taken from the earliest invoice instead of the latest
SnapshotDate_FirstInvoice(d) ==
    IF DOMAIN d = {} THEN NaN
    ELSE -MaxOf({-d[i]["InvoiceDate"] : i \in DOMAIN d}) + MinutesPerDay

\* snapshot_date = df_clean['InvoiceDate'].max() + pd.Timedelta(days=1);
\* the maximum of an empty column is NaT, and NaT plus a day is NaT
SnapshotDate(d) ==
    IF DOMAIN d = {} THEN NaN
    ELSE MaxOf({d[i]["InvoiceDate"] : i \in DOMAIN d}) + MinutesPerDay

\* the aggregation with 'count' in place of nunique: Frequency counts line items
AggregateStep_CountLines(d, snapshot) ==
    [c \in {d[i]["CustomerID"] : i \in DOMAIN d} |->
        LET I == {i \in DOMAIN d : d[i]["CustomerID"] = c}
        IN  [Recency   |-> (snapshot - MaxOf({d[i]["InvoiceDate"] : i \in I}))
                              \div MinutesPerDay,
             Frequency |-> Cardinality(I),
             Monetary  |-> SumSales(d, I)]]

\* df_clean.groupby('Customer ID').agg(...): one row per customer with
\* Recency = (snapshot_date - x.max()).days, Frequency = nunique of Invoice,
\* Monetary = sum of TotalSales
AggregateStep(d, snapshot) ==
    [c \in {d[i]["CustomerID"] : i \in DOMAIN d} |->
        LET I == {i \in DOMAIN d : d[i]["CustomerID"] = c}
        IN  [Recency   |-> (snapshot - MaxOf({d[i]["InvoiceDate"] : i \in I}))
                              \div MinutesPerDay,
             Frequency |-> Cardinality({d[i]["Invoice"] : i \in I}),
             Monetary  |-> SumSales(d, I)]]

-----------------------------------------------------------------------------
(* STEP 4: scores *)

\* pd.qcut(rfm['Recency'], q=4, labels=[4, 3, 2, 1]): edges are the quantiles
\* 0, .25, .5, .75, 1 of the column itself
RecencyBins(t) ==
    LET col == Column(t, "Recency")
    IN  <<4 * ColMin(col), Quantile4(col, 1), Quantile4(col, 2),
          Quantile4(col, 3), 4 * ColMax(col)>>

\* labels of a five-point scale given to the four quartiles
RecencyLabels_FivePoint == <<5, 4, 3, 2>>

\* labels not reversed: the most recent quartile scored lowest
RecencyLabels_Ascending == <<1, 2, 3, 4>>

RecencyLabels == <<4, 3, 2, 1>>

freq_bins(t) ==
    LET col == Column(t, "Frequency")
    IN  <<ColMin(col) - 1, 1, 2, 3, ColMax(col)>>

monetary_bins(t) ==
    LET col == Column(t, "Monetary")
    IN  <<4 * (ColMin(col) - 1), Quantile4(col, 1), Quantile4(col, 2),
          Quantile4(col, 3), 4 * ColMax(col)>>

\* the Recency labels copied to the Monetary cut
MonetaryLabels_Descending == <<4, 3, 2, 1>>

\* labels=[1, 2, 3, 4] of the two pd.cut calls
FrequencyLabels == <<1, 2, 3, 4>>
MonetaryLabels == <<1, 2, 3, 4>>

\* rfm[c] = <values>: the table with column c set
WithColumn(t, c, val) == [i \in DOMAIN t |-> (c :> val[i]) @@ t[i]]

HasNull(t, c) == \E i \in DOMAIN t : t[i][c] = NaN

\* str(int): the scores are single digits
Str(n) == CASE n = 0 -> "0" [] n = 1 -> "1" [] n = 2 -> "2" [] n = 3 -> "3"
            [] n = 4 -> "4" [] n = 5 -> "5" [] n = 6 -> "6" [] n = 7 -> "7"
            [] n = 8 -> "8" [] n = 9 -> "9"

\* the segment code with the F column written first
RFM_Segment_FrequencyFirst(r) ==
    <<Str(r["F_Score"]), Str(r["R_Score"]), Str(r["M_Score"])>>

\* the three astype(int).astype(str) columns added together, as characters
RFM_Segment(r) == <<Str(r["R_Score"]), Str(r["F_Score"]), Str(r["M_Score"])>>

\* The STEP 4 block on table t: the table it leaves and the exception it
\* raises, if any.  Statements run in order, so a raise keeps the columns
\* assigned before it.
\*   - qcut raises ValueError on repeated quantile edges (also on an empty column);
\*   - the two pd.cut raise ValueError on non-increasing edges;
\*   - with a NaN left in a score column, Series.median() of the categorical
\*     column raises TypeError (a Categorical has no median reduction).
ScoreStep(t) ==
    LET rb  == RecencyBins(t)
        fb  == freq_bins(t)
        mb  == monetary_bins(t)
        tR  == WithColumn(t, "R_Score",
                 [i \in DOMAIN t |-> BinLabel(4 * t[i]["Recency"], rb, RecencyLabels)])
        tF  == WithColumn(tR, "F_Score",
                 [i \in DOMAIN t |-> BinLabel(t[i]["Frequency"], fb, FrequencyLabels)])
        tM  == WithColumn(tF, "M_Score",
                 [i \in DOMAIN t |-> BinLabel(4 * t[i]["Monetary"], mb, MonetaryLabels)])
        tS  == WithColumn(tM, "RFM_Segment", [i \in DOMAIN t |-> RFM_Segment(tM[i])])
    IN  IF DOMAIN t = {} \/ BinsRaise(rb)
        THEN [table |-> t, raised |-> "ValueError"]
        ELSE IF BinsRaise(fb)
        THEN [table |-> tR, raised |-> "ValueError"]
        ELSE IF BinsRaise(mb)
        THEN [table |-> tF, raised |-> "ValueError"]
        ELSE IF HasNull(tM, "R_Score") \/ HasNull(tM, "F_Score") \/ HasNull(tM, "M_Score")
        THEN [table |-> tM, raised |-> "TypeError"]
        ELSE [table |-> tS, raised |-> "none"]

-----------------------------------------------------------------------------
(* STEP 5: segments *)

\* get_segment with the Loyal Customers test ahead of the Champions test
get_segment_LoyalFirst(rfm_row) ==
    LET r_score == rfm_row["R_Score"]
        f_score == rfm_row["F_Score"]
        m_score == rfm_row["M_Score"]
    IN  IF r_score = 4 /\ f_score >= 3 THEN "Loyal Customers"
        ELSE IF r_score = 4 /\ f_score = 4 /\ m_score = 4 THEN "Champions"
        ELSE IF r_score = 4 /\ f_score = 1 THEN "New Customers"
        ELSE IF r_score = 3 THEN "Potential Loyalists"
        ELSE IF r_score = 2 THEN "At Risk Customers"
        ELSE IF r_score = 1 /\ f_score >= 2 THEN "Cant Lose Them"
        ELSE IF r_score = 1 THEN "Lost Customers"
        ELSE "Others"

\* get_segment with the New Customers rule widened to f_score <= 2
get_segment_NewUpToTwo(rfm_row) ==
    LET r_score == rfm_row["R_Score"]
        f_score == rfm_row["F_Score"]
        m_score == rfm_row["M_Score"]
    IN  IF r_score = 4 /\ f_score = 4 /\ m_score = 4 THEN "Champions"
        ELSE IF r_score = 4 /\ f_score >= 3 THEN "Loyal Customers"
        ELSE IF r_score = 4 /\ f_score <= 2 THEN "New Customers"
        ELSE IF r_score = 3 THEN "Potential Loyalists"
        ELSE IF r_score = 2 THEN "At Risk Customers"
        ELSE IF r_score = 1 /\ f_score >= 2 THEN "Cant Lose Them"
        ELSE IF r_score = 1 THEN "Lost Customers"
        ELSE "Others"

\* get_segment without its else branch: Python returns None
get_segment_NoElse(rfm_row) ==
    LET r_score == rfm_row["R_Score"]
        f_score == rfm_row["F_Score"]
        m_score == rfm_row["M_Score"]
    IN  IF r_score = 4 /\ f_score = 4 /\ m_score = 4 THEN "Champions"
        ELSE IF r_score = 4 /\ f_score >= 3 THEN "Loyal Customers"
        ELSE IF r_score = 4 /\ f_score = 1 THEN "New Customers"
        ELSE IF r_score = 3 THEN "Potential Loyalists"
        ELSE IF r_score = 2 THEN "At Risk Customers"
        ELSE IF r_score = 1 /\ f_score >= 2 THEN "Cant Lose Them"
        ELSE IF r_score = 1 THEN "Lost Customers"
        ELSE "None"

get_segment(rfm_row) ==
    LET r_score == rfm_row["R_Score"]
        f_score == rfm_row["F_Score"]
        m_score == rfm_row["M_Score"]
    IN  IF r_score = 4 /\ f_score = 4 /\ m_score = 4 THEN "Champions"
        ELSE IF r_score = 4 /\ f_score >= 3 THEN "Loyal Customers"
        ELSE IF r_score = 4 /\ f_score = 1 THEN "New Customers"
        ELSE IF r_score = 3 THEN "Potential Loyalists"
        ELSE IF r_score = 2 THEN "At Risk Customers"
        ELSE IF r_score = 1 /\ f_score >= 2 THEN "Cant Lose Them"
        ELSE IF r_score = 1 THEN "Lost Customers"
        ELSE "Others"

\* rfm['Customer_Group'] = rfm.apply(get_segment, axis=1)
ClassifyStep(t) == WithColumn(t, "Customer_Group", [i \in DOMAIN t |-> get_segment(t[i])])

-----------------------------------------------------------------------------
(* The scoring specification: STEP 4 and STEP 5 on every table STEP 3 can    *)
(* hand over.  STEP 3 gives Recency >= 1 with the most recent customer at    *)
(* exactly 1 (the snapshot is one day after the latest invoice), Frequency   *)
(* >= 1 and Monetary > 0.  Scoring reads the columns as a population, so the *)
(* customers are numbered in the order of their metrics.                     *)

\* the metrics of one customer, numbered 0 .. in the order (Recency,
\* Frequency, Monetary) of the value sequences RS, FS, MS
MetricsAt(k, RS, FS, MS) ==
    [Recency   |-> RS[(k \div (Len(FS) * Len(MS))) + 1],
     Frequency |-> FS[((k \div Len(MS)) % Len(FS)) + 1],
     Monetary  |-> MS[(k % Len(MS)) + 1]]

\* rfm is a table of n customers whose metric numbers continue the
\* non-decreasing sequence s
RECURSIVE PopulationFrom(_, _, _, _, _)
PopulationFrom(s, n, RS, FS, MS) ==
    IF Len(s) = n
    THEN rfm = [i \in 1..n |-> MetricsAt(s[i], RS, FS, MS)]
    ELSE \E k \in s[Len(s)]..(Len(RS) * Len(FS) * Len(MS) - 1) :
            PopulationFrom(Append(s, k), n, RS, FS, MS)

\* every table of 1..MaxCust customers over the values RS (which starts
\* with Recency 1), FS, MS, the first customer the most recent one
InitScoreOver(RS, FS, MS) ==
    /\ pc = "aggregated"
    /\ err = "none"
    /\ df = <<>>
    /\ df_clean = <<>>
    /\ snapshot_date = NaN
    /\ \E n \in 1..MaxCust :
            \E k \in 0..(Len(FS) * Len(MS) - 1) :
                PopulationFrom(<<k>>, n, RS, FS, MS)
    /\ row = <<>>
    /\ result = ""
    /\ csv = "none"

InitScore == InitScoreOver(<<1, 2, 3, 5>>, <<1, 2, 4>>, <<20, 30, 70>>)

\* fewer Recency and Frequency values, more Monetary values
InitMonetary == InitScoreOver(<<1, 2, 3>>, <<1, 4>>, <<20, 30, 70, 90>>)

Score ==
    /\ pc = "aggregated"
    /\ LET s == ScoreStep(rfm)
       IN  /\ rfm' = s.table
           /\ err' = s.raised
           /\ pc' = IF s.raised = "none" THEN "scored" ELSE "failed"
    /\ UNCHANGED <<df, df_clean, snapshot_date, row, result, csv>>

Classify ==
    /\ pc = "scored"
    /\ rfm' = ClassifyStep(rfm)
    /\ pc' = "classified"
    /\ UNCHANGED <<err, df, df_clean, snapshot_date, row, result, csv>>

\* the temporary plotting columns of STEP 7 and STEP 8
NumColumns == {"R_Score_Num", "F_Score_Num", "M_Score_Num"}

\* rfm['R_Score_Num'] = rfm['R_Score'].astype(int), and the same for F and M:
\* the categorical label as an integer (labels are kept as integers here)
AddScoreNums(t) ==
    LET tR == WithColumn(t,  "R_Score_Num", [i \in DOMAIN t |-> t[i]["R_Score"]])
        tF == WithColumn(tR, "F_Score_Num", [i \in DOMAIN t |-> t[i]["F_Score"]])
    IN  WithColumn(tF, "M_Score_Num", [i \in DOMAIN t |-> t[i]["M_Score"]])

\* the three columns with no cleanup of the M column
DropColumns_KeepM(t, cols) ==
    [i \in DOMAIN t |->
        [c \in DOMAIN t[i] \ (cols \ {"M_Score_Num"}) |-> t[i][c]]]

\* rfm.drop([...], axis=1)
DropColumns(t, cols) ==
    [i \in DOMAIN t |-> [c \in DOMAIN t[i] \ cols |-> t[i][c]]]

\* the columns of rfm in the order the script creates them
ColumnOrder ==
    <<"Recency", "Frequency", "Monetary", "R_Score", "F_Score", "M_Score",
      "RFM_Segment", "Customer_Group",
      "R_Score_Num", "F_Score_Num", "M_Score_Num">>

RECURSIVE Digits(_)
\* str of a non-negative integer, as its decimal digits
Digits(n) == IF n < 10 THEN <<Str(n)>> ELSE Append(Digits(n \div 10), Str(n % 10))

\* the text to_csv writes for one cell
CsvCell(c, v) ==
    IF c \in {"RFM_Segment", "Customer_Group"} THEN v ELSE Digits(v)

\* rfm.to_csv(path): the index (named 'Customer ID' by the groupby) is written
\* as the first field of every line, then the columns in table order
to_csv(t) ==
    LET cols == IF DOMAIN t = {} THEN {}
                ELSE DOMAIN t[CHOOSE i \in DOMAIN t : TRUE]
        Present(c) == c \in cols
    IN  [index_label |-> "Customer ID",
         header      |-> SelectSeq(ColumnOrder, Present),
         lines       |-> [i \in DOMAIN t |->
                            [c \in cols |-> CsvCell(c, t[i][c])]]]

\* STEP 7 up to plt.show(): the numeric score columns are added to rfm
Page1Convert ==
    /\ pc = "classified"
    /\ rfm' = AddScoreNums(rfm)
    /\ pc' = "page1"
    /\ UNCHANGED <<err, df, df_clean, snapshot_date, row, result, csv>>

\* STEP 7, clean up temporary columns
Page1Cleanup ==
    /\ pc = "page1"
    /\ rfm' = DropColumns(rfm, NumColumns)
    /\ pc' = "page1_done"
    /\ UNCHANGED <<err, df, df_clean, snapshot_date, row, result, csv>>

\* STEP 8 up to plt.show(): the numeric score columns are added again
Page2Convert ==
    /\ pc = "page1_done"
    /\ rfm' = AddScoreNums(rfm)
    /\ pc' = "page2"
    /\ UNCHANGED <<err, df, df_clean, snapshot_date, row, result, csv>>

\* STEP 8, clean up temporary columns
Page2Cleanup ==
    /\ pc = "page2"
    /\ rfm' = DropColumns(rfm, NumColumns)
    /\ pc' = "page2_done"
    /\ UNCHANGED <<err, df, df_clean, snapshot_date, row, result, csv>>

\* STEP 9: rfm.to_csv('rfm_analysis_results.csv')
Save ==
    /\ pc = "page2_done"
    /\ csv' = to_csv(rfm)
    /\ pc' = "saved"
    /\ UNCHANGED <<err, df, df_clean, snapshot_date, rfm, row, result>>

NextScore ==
    \/ Score
    \/ Classify
    \/ Page1Convert
    \/ Page1Cleanup
    \/ Page2Convert
    \/ Page2Cleanup
    \/ Save

SpecScore == InitScore /\ [][NextScore]_vars

SpecMonetary == InitMonetary /\ [][NextScore]_vars

\* A four-customer table after STEP 3: three fixed customers and a fourth whose
\* metrics range over values below, between, equal to and above theirs.
ScenarioCustomers ==
    <<[Recency |-> 1,   Frequency |-> 10, Monetary |-> 5000],
      [Recency |-> 2,   Frequency |-> 9,  Monetary |-> 4800],
      [Recency |-> 400, Frequency |-> 1,  Monetary |-> 20]>>

FourthRecency == {1, 2, 3, 400, 500}
FourthFrequency == {1, 2, 3, 4, 12}
FourthMonetary == {10, 20, 4800, 5000, 6000}

InitScenario ==
    /\ pc = "aggregated"
    /\ err = "none"
    /\ df = <<>>
    /\ df_clean = <<>>
    /\ snapshot_date = NaN
    /\ \E r \in FourthRecency, f \in FourthFrequency, m \in FourthMonetary :
            rfm = Append(ScenarioCustomers,
                         [Recency |-> r, Frequency |-> f, Monetary |-> m])
    /\ row = <<>>
    /\ result = ""
    /\ csv = "none"

SpecScenario == InitScenario /\ [][NextScore]_vars

-----------------------------------------------------------------------------
(* The pipeline specification: STEP 2 and STEP 3 on every raw table of at    *)
(* most MaxRows rows.  No step depends on the order of the rows, so the raw  *)
(* rows come in the order of their numbers.                                  *)

CustomerSeq == <<NaN, 1, 2>>
InvoiceSeq == <<"536365", "536366">>
QuantitySeq == <<-1, 0, 2>>
PriceSeq == <<0, 5>>
\* "09/12/2011 12:50", "07/12/2011 14:10" and "12/13/2011 08:26" (month 13)
DateSeq == <<<<9, 12, 2011, 12, 50>>, <<7, 12, 2011, 14, 10>>, <<12, 13, 2011, 8, 26>>>>

NumRaw == Len(CustomerSeq) * Len(InvoiceSeq) * Len(QuantitySeq) * Len(PriceSeq) * Len(DateSeq)

RawAt(k) ==
    LET a == k % Len(DateSeq)
        b == k \div Len(DateSeq)
        c == b \div Len(PriceSeq)
        e == c \div Len(QuantitySeq)
    IN  [CustomerID  |-> CustomerSeq[(e \div Len(InvoiceSeq)) + 1],
         Invoice     |-> InvoiceSeq[(e % Len(InvoiceSeq)) + 1],
         Quantity    |-> QuantitySeq[(c % Len(QuantitySeq)) + 1],
         Price       |-> PriceSeq[(b % Len(PriceSeq)) + 1],
         InvoiceDate |-> DateSeq[a + 1]]

\* df is the table of n raw rows whose numbers continue the non-decreasing
\* sequence s
RECURSIVE RawFrom(_, _)
RawFrom(s, n) ==
    IF Len(s) = n
    THEN df = [i \in 1..n |-> RawAt(s[i])]
    ELSE \E k \in (IF s = <<>> THEN 0 ELSE s[Len(s)])..(NumRaw - 1) :
            RawFrom(Append(s, k), n)

Init ==
    /\ pc = "loaded"
    /\ err = "none"
    /\ \E n \in 0..MaxRows : RawFrom(<<>>, n)
    /\ df_clean = <<>>
    /\ snapshot_date = NaN
    /\ rfm = <<>>
    /\ row = <<>>
    /\ result = ""
    /\ csv = "none"

Clean ==
    /\ pc = "loaded"
    /\ df_clean' = CleanStep(df)
    /\ pc' = "cleaned"
    /\ UNCHANGED <<err, df, snapshot_date, rfm, row, result, csv>>

Aggregate ==
    /\ pc = "cleaned"
    /\ snapshot_date' = SnapshotDate(df_clean)
    /\ rfm' = AggregateStep(df_clean, SnapshotDate(df_clean))
    /\ pc' = "aggregated"
    /\ UNCHANGED <<err, df, df_clean, row, result, csv>>

Next == Clean \/ Aggregate

Spec == Init /\ [][Next]_vars

-----------------------------------------------------------------------------
(* The classifier specification: get_segment on every score triple *)

Scores == 1..4

InitSegment ==
    /\ pc = "call"
    /\ err = "none"
    /\ df = <<>>
    /\ df_clean = <<>>
    /\ snapshot_date = NaN
    /\ rfm = <<>>
    /\ row \in [R_Score : Scores, F_Score : Scores, M_Score : Scores]
    /\ result = ""
    /\ csv = "none"

Segment ==
    /\ pc = "call"
    /\ result' = get_segment(row)
    /\ pc' = "return"
    /\ UNCHANGED <<err, df, df_clean, snapshot_date, rfm, row, csv>>

NextSegment == Segment

SpecSegment == InitSegment /\ [][NextSegment]_vars

-----------------------------------------------------------------------------
(* Properties *)

Groups == {"Champions", "Loyal Customers", "New Customers", "Potential Loyalists",
           "At Risk Customers", "Cant Lose Them", "Lost Customers", "Others"}

ScoringDone == pc \in {"scored", "classified"}

Customers == DOMAIN rfm

\* C1: for every score triple in {1,2,3,4}^3 get_segment returns the label of
\* the first matching rule: (4,4,4) Champions; R=4 and F>=3 otherwise Loyal
\* Customers; R=4 and F=1 New Customers; R=3 Potential Loyalists; R=2 At Risk
\* Customers; R=1 and F>=2 Cant Lose Them; R=1 and F=1 Lost Customers;
\* anything else Others.
C1_FirstMatchingRule ==
    pc = "return" =>
        LET R == row["R_Score"]  F == row["F_Score"]  M == row["M_Score"]
        IN  /\ (R = 4 /\ F = 4 /\ M = 4) => result = "Champions"
            /\ (R = 4 /\ F >= 3 /\ ~(F = 4 /\ M = 4)) => result = "Loyal Customers"
            /\ (R = 4 /\ F = 1) => result = "New Customers"
            /\ R = 3 => result = "Potential Loyalists"
            /\ R = 2 => result = "At Risk Customers"
            /\ (R = 1 /\ F >= 2) => result = "Cant Lose Them"
            /\ (R = 1 /\ F = 1) => result = "Lost Customers"
            /\ (R = 4 /\ F = 2) => result = "Others"

\* the Champions rule has won over the Loyal Customers rule that also matches
C1_Witness ==
    /\ pc = "return"
    /\ row = [R_Score |-> 4, F_Score |-> 4, M_Score |-> 4]
    /\ result = "Champions"

\* C2: after the classification stage every customer row carries exactly one
\* Customer_Group, one of the eight fixed labels; classifying a scored table
\* never fails; two customers with the same (R,F,M) triple have the same group.
C2_OneGroupPerCustomer ==
    /\ pc = "scored" => ENABLED Classify
    /\ pc = "classified" =>
        /\ \A i \in Customers :
              /\ "Customer_Group" \in DOMAIN rfm[i]
              /\ rfm[i]["Customer_Group"] \in Groups
        /\ \A i, j \in Customers :
              (/\ rfm[i]["R_Score"] = rfm[j]["R_Score"]
               /\ rfm[i]["F_Score"] = rfm[j]["F_Score"]
               /\ rfm[i]["M_Score"] = rfm[j]["M_Score"])
              => rfm[i]["Customer_Group"] = rfm[j]["Customer_Group"]

\* a classified table with two customers of one triple and one in the
\* default group
C2_Witness ==
    /\ pc = "classified"
    /\ \E i, j \in Customers :
          /\ i # j
          /\ rfm[i]["RFM_Segment"] = rfm[j]["RFM_Segment"]
    /\ \E i \in Customers : rfm[i]["Customer_Group"] = "Others"

\* C3: once the scoring stage has run, every customer's R_Score, F_Score and
\* M_Score is defined (not null) and is an integer in {1,2,3,4}.
C3_ScoresDefinedInRange ==
    ScoringDone =>
        \A i \in Customers :
            \A c \in {"R_Score", "F_Score", "M_Score"} :
                /\ c \in DOMAIN rfm[i]
                /\ rfm[i][c] # NaN
                /\ rfm[i][c] \in 1..4

\* a scored population of four customers
C3_Witness ==
    /\ pc = "scored"
    /\ Cardinality(Customers) = 4
    /\ \E i \in Customers : rfm[i]["R_Score"] = 1

\* the fixed Frequency bucket: 1, 2, 3, and 4 for every Frequency >= 4
FixedBucket(f) == IF f >= 4 THEN 4 ELSE f

\* C4: for every population and every customer the Frequency score is the
\* fixed bucket of the customer's Frequency, also when the smallest Frequency
\* is above 1 or the largest is 3 or less.  Stated of every run in which the
\* Recency score was assigned, the statement before the Frequency one.
C4_FixedFrequencyBuckets ==
    (/\ pc # "aggregated"
     /\ \A i \in Customers : "R_Score" \in DOMAIN rfm[i])
    => \A i \in Customers :
          /\ "F_Score" \in DOMAIN rfm[i]
          /\ rfm[i]["F_Score"] = FixedBucket(rfm[i]["Frequency"])

RecencyQ(k) == Quantile4(Column(rfm, "Recency"), k)

DistinctRecency ==
    \A i, j \in Customers : i # j => rfm[i]["Recency"] # rfm[j]["Recency"]

\* C5: the Recency score maps the four quartile buckets of Recency in reverse:
\* up to the 25th percentile 4, up to the median 3, up to the 75th percentile 2,
\* above it 1; with pairwise distinct Recency values and a population size
\* that is a multiple of 4, each score goes to exactly a quarter of the
\* customers.
C5_RecencyQuartilesReversed ==
    ScoringDone =>
        /\ \A i \in Customers :
              LET x == 4 * rfm[i]["Recency"]
                  R == rfm[i]["R_Score"]
              IN  /\ x <= RecencyQ(1) => R = 4
                  /\ (RecencyQ(1) < x /\ x <= RecencyQ(2)) => R = 3
                  /\ (RecencyQ(2) < x /\ x <= RecencyQ(3)) => R = 2
                  /\ RecencyQ(3) < x => R = 1
        /\ (Cardinality(Customers) % 4 = 0 /\ DistinctRecency) =>
              \A sc \in 1..4 :
                  4 * Cardinality({i \in Customers : rfm[i]["R_Score"] = sc})
                      = Cardinality(Customers)

\* four customers with distinct Recency, scored 4, 3, 2, 1 from the most recent
C5_Witness ==
    /\ pc = "scored"
    /\ Cardinality(Customers) = 4
    /\ DistinctRecency
    /\ \A i, j \in Customers :
          rfm[i]["Recency"] < rfm[j]["Recency"] => rfm[i]["R_Score"] > rfm[j]["R_Score"]

MonetaryQ(k) == Quantile4(Column(rfm, "Monetary"), k)

\* C6: with Q25, Q50, Q75 the percentiles of Monetary over all customers, a
\* customer gets M_Score 1 if Monetary <= Q25, 2 if Q25 < Monetary <= Q50, 3
\* if Q50 < Monetary <= Q75 and 4 if Monetary > Q75; the customer with the
\* smallest Monetary gets 1 and the one with the largest gets 4.
C6_MonetaryQuartilesAscending ==
    ScoringDone =>
        \A i \in Customers :
            LET x == 4 * rfm[i]["Monetary"]
                M == rfm[i]["M_Score"]
            IN  /\ x <= MonetaryQ(1) => M = 1
                /\ (MonetaryQ(1) < x /\ x <= MonetaryQ(2)) => M = 2
                /\ (MonetaryQ(2) < x /\ x <= MonetaryQ(3)) => M = 3
                /\ MonetaryQ(3) < x => M = 4
                /\ (\A j \in Customers : rfm[i]["Monetary"] <= rfm[j]["Monetary"]) => M = 1
                /\ (\A j \in Customers : rfm[j]["Monetary"] <= rfm[i]["Monetary"]) => M = 4

\* a scored population in which all four Monetary scores occur
C6_Witness ==
    /\ pc = "scored"
    /\ \A sc \in 1..4 : \E i \in Customers : rfm[i]["M_Score"] = sc

\* the five quantile edges of Recency are not pairwise distinct
RecencyConcentrated ==
    Cardinality({4 * ColMin(Column(rfm, "Recency")), RecencyQ(1), RecencyQ(2),
                 RecencyQ(3), 4 * ColMax(Column(rfm, "Recency"))}) < 5

\* C7: when the Recency values are too concentrated for four distinct
\* quantile cut points, the scoring stage still completes and gives every
\* customer an R_Score instead of failing.
C7_ConcentratedRecencyScored ==
    (pc # "aggregated" /\ RecencyConcentrated) =>
        /\ pc # "failed"
        /\ \A i \in Customers :
              /\ "R_Score" \in DOMAIN rfm[i]
              /\ rfm[i]["R_Score"] \in 1..4

\* C8 (its case): the missing-score fallback acts on a customer the binning
\* left without a score.  Whenever the three binnings return, every customer
\* has all three scores, so no run enters the fallback: the median of a
\* categorical column is never taken (it would raise TypeError).
BinningLeavesNoMissingScore == err # "TypeError"

\* the four row-level checks of the cleaner
PassesChecks(r) ==
    /\ r["CustomerID"] # NaN
    /\ r["Quantity"] > 0
    /\ r["Price"] > 0
    /\ to_datetime(r["InvoiceDate"]) # NaN

CleaningDone == pc \in {"cleaned", "aggregated"}

\* C9: every record of the cleaned set handed to the aggregator has a customer
\* identifier, quantity > 0, unit price > 0, revenue = quantity x unit price
\* > 0 and a parsed invoice timestamp.
C9_CleanRecordsValid ==
    CleaningDone =>
        \A i \in DOMAIN df_clean :
            LET r == df_clean[i]
            IN  /\ r["CustomerID"] # NaN
                /\ r["Quantity"] > 0
                /\ r["Price"] > 0
                /\ r["TotalSales"] = r["Quantity"] * r["Price"]
                /\ r["TotalSales"] > 0
                /\ r["InvoiceDate"] # NaN

\* a cleaned set that kept one raw row and dropped another
C9_Witness ==
    /\ pc = "cleaned"
    /\ DOMAIN df_clean # {}
    /\ DOMAIN df_clean # DOMAIN df

\* C10: a raw record that fails one of the four checks is dropped without
\* raising and every other record is kept unchanged, so the cleaned set is
\* exactly the raw records that pass all four checks, and the run goes on to
\* aggregation with them.
C10_CleanedIsExactlyPassing ==
    /\ pc # "failed"
    /\ pc = "cleaned" => ENABLED Aggregate
    /\ CleaningDone =>
        /\ err = "none"
        /\ DOMAIN df_clean = {i \in DOMAIN df : PassesChecks(df[i])}
        /\ \A i \in DOMAIN df_clean :
              /\ df_clean[i]["CustomerID"] = df[i]["CustomerID"]
              /\ df_clean[i]["Invoice"] = df[i]["Invoice"]
              /\ df_clean[i]["Quantity"] = df[i]["Quantity"]
              /\ df_clean[i]["Price"] = df[i]["Price"]
              /\ df_clean[i]["InvoiceDate"] = to_datetime(df[i]["InvoiceDate"])

\* a run that dropped a row for its date alone and aggregated the other row
C10_Witness ==
    /\ pc = "aggregated"
    /\ DOMAIN df_clean # {}
    /\ \E i \in DOMAIN df \ DOMAIN df_clean :
          /\ df[i]["CustomerID"] # NaN
          /\ df[i]["Quantity"] > 0
          /\ df[i]["Price"] > 0
    /\ DOMAIN rfm # {}

AggregationDone == pc = "aggregated"

\* the raw rows of customer c that pass every cleaning check
PassingRowsOf(c) ==
    {i \in DOMAIN df : PassesChecks(df[i]) /\ df[i]["CustomerID"] = c}

\* C11: after aggregation the table has one row per customer of the cleaned
\* transactions, and the customer's Frequency is the number of distinct
\* invoice ids among that customer's cleaned rows (not the number of line
\* items), hence at least 1.
C11_FrequencyIsDistinctInvoices ==
    AggregationDone =>
        /\ DOMAIN rfm = {df[i]["CustomerID"] : i \in {j \in DOMAIN df : PassesChecks(df[j])}}
        /\ \A c \in DOMAIN rfm :
              /\ rfm[c]["Frequency"] =
                    Cardinality({df[i]["Invoice"] : i \in PassingRowsOf(c)})
              /\ rfm[c]["Frequency"] >= 1

\* a customer with two cleaned line items on one invoice has Frequency 1
C11_Witness ==
    /\ AggregationDone
    /\ \E c \in DOMAIN rfm :
          /\ Cardinality(PassingRowsOf(c)) = 2
          /\ rfm[c]["Frequency"] = 1

\* C12: the snapshot is the latest cleaned invoice timestamp plus one day, so
\* it is later than every cleaned timestamp, and every customer's Recency, the
\* whole days (truncated) between the customer's latest invoice and the
\* snapshot, is non-negative.
C12_RecencyNonNegative ==
    (AggregationDone /\ DOMAIN df_clean # {}) =>
        /\ \E i \in DOMAIN df_clean :
              snapshot_date = df_clean[i]["InvoiceDate"] + MinutesPerDay
        /\ \A i \in DOMAIN df_clean : snapshot_date > df_clean[i]["InvoiceDate"]
        /\ \A c \in DOMAIN rfm :
              /\ rfm[c]["Recency"] >= 0
              /\ \E i \in PassingRowsOf(c) :
                    /\ \A j \in PassingRowsOf(c) :
                          df_clean[j]["InvoiceDate"] <= df_clean[i]["InvoiceDate"]
                    /\ LET gap == snapshot_date - df_clean[i]["InvoiceDate"]
                       IN  /\ rfm[c]["Recency"] * MinutesPerDay <= gap
                           /\ gap < (rfm[c]["Recency"] + 1) * MinutesPerDay

\* two customers whose latest invoices are 1 day 22 h 40 min apart: the later
\* one has Recency 1, the earlier one Recency 2 (truncated, not rounded to 3)
C12_Witness ==
    /\ AggregationDone
    /\ \E c, e \in DOMAIN rfm :
          /\ rfm[c]["Recency"] = 1
          /\ rfm[e]["Recency"] = 2
          /\ \E i \in PassingRowsOf(e) :
                snapshot_date - df_clean[i]["InvoiceDate"] > 2 * MinutesPerDay

\* C13: when cleaning leaves zero transactions, the aggregation stops the run
\* with an empty-input error of its own; the run never holds an (empty)
\* customer table built from zero cleaned transactions.
C13_EmptyInputRejected ==
    (pc \notin {"loaded", "cleaned"} /\ DOMAIN df_clean = {}) =>
        /\ pc = "failed"
        /\ err = "EmptyInputError"

ScoreDigits == <<"1", "2", "3", "4">>

\* C14: every scored customer's RFM_Segment is exactly three characters, each
\* one of the digits 1 to 4, and its first, second and third character is the
\* digit of the customer's R_Score, F_Score and M_Score respectively.
C14_SegmentIsThreeScoreDigits ==
    ScoringDone =>
        \A i \in Customers :
            LET seg == rfm[i]["RFM_Segment"]
            IN  /\ Len(seg) = 3
                /\ \A k \in 1..3 : \E d \in 1..4 : seg[k] = ScoreDigits[d]
                /\ seg[1] = ScoreDigits[rfm[i]["R_Score"]]
                /\ seg[2] = ScoreDigits[rfm[i]["F_Score"]]
                /\ seg[3] = ScoreDigits[rfm[i]["M_Score"]]

\* a scored customer whose three scores differ pairwise, so that the order of
\* the characters matters
C14_Witness ==
    /\ ScoringDone
    /\ \E i \in Customers :
          /\ rfm[i]["R_Score"] # rfm[i]["F_Score"]
          /\ rfm[i]["F_Score"] # rfm[i]["M_Score"]
          /\ rfm[i]["R_Score"] # rfm[i]["M_Score"]
          /\ Len(rfm[i]["RFM_Segment"]) = 3

AfterClassification ==
    {"classified", "page1", "page1_done", "page2", "page2_done", "saved"}

\* C16: from the end of classification until the run ends, no step of the two
\* dashboard stages or of the save stage adds, removes or changes a column or
\* a value of the customer table.
C16_ConsumersReadOnly ==
    [][(pc \in AfterClassification) => (rfm' = rfm)]_vars

MetricColumns == {"Recency", "Frequency", "Monetary"}

ResultColumns ==
    <<"Recency", "Frequency", "Monetary", "R_Score", "F_Score", "M_Score",
      "RFM_Segment", "Customer_Group">>

\* the table classification produced, recomputed from the metric columns
AsClassified(t) ==
    ClassifyStep(ScoreStep([i \in DOMAIN t |->
                              [c \in MetricColumns |-> t[i][c]]]).table)

\* C17: while a dashboard stage shows its figure, the table is the classified
\* table plus the three numeric score columns (each the integer of its
\* score); once the stage has cleaned up, and so before the next stage starts,
\* the table is again exactly what classification produced.  Hence the file
\* written is keyed by customer id, has one line per customer of the table
\* and exactly the columns Recency, Frequency, Monetary, R_Score, F_Score,
\* M_Score, RFM_Segment, Customer_Group.
C17_TransientColumnsRemoved ==
    /\ pc \in {"page1", "page2"} =>
          /\ \A i \in DOMAIN rfm :
                /\ DOMAIN rfm[i] = Range(ResultColumns) \cup NumColumns
                /\ rfm[i]["R_Score_Num"] = rfm[i]["R_Score"]
                /\ rfm[i]["F_Score_Num"] = rfm[i]["F_Score"]
                /\ rfm[i]["M_Score_Num"] = rfm[i]["M_Score"]
                /\ rfm[i]["R_Score_Num"] \in 1..4
          /\ DropColumns(rfm, NumColumns) = AsClassified(rfm)
    /\ pc \in {"classified", "page1_done", "page2_done", "saved"} =>
          /\ rfm = AsClassified(rfm)
          /\ \A i \in DOMAIN rfm : DOMAIN rfm[i] = Range(ResultColumns)
    /\ pc = "saved" =>
          /\ csv.index_label = "Customer ID"
          /\ csv.header = ResultColumns
          /\ DOMAIN csv.lines = DOMAIN rfm
          /\ \A i \in DOMAIN csv.lines :
                /\ DOMAIN csv.lines[i] = Range(ResultColumns)
                /\ csv.lines[i]["RFM_Segment"] = rfm[i]["RFM_Segment"]
                /\ csv.lines[i]["Customer_Group"] = rfm[i]["Customer_Group"]

\* a saved run over at least two customers, after both dashboards
C17_Witness ==
    /\ pc = "saved"
    /\ Cardinality(DOMAIN csv.lines) >= 2
    /\ Len(csv.header) = 8

\* C18: over all score triples in 1..4, get_segment returns Others exactly
\* when R_Score = 4 and F_Score = 2, whatever M_Score is; and M_Score changes
\* the group only when R_Score = 4 and F_Score = 4 (Champions for M_Score 4,
\* Loyal Customers otherwise).
C18_OthersAndMonetaryRole ==
    pc = "return" =>
        /\ (result = "Others") <=> (row["R_Score"] = 4 /\ row["F_Score"] = 2)
        /\ (\E m \in Scores : get_segment([row EXCEPT !["M_Score"] = m]) # result)
              <=> (row["R_Score"] = 4 /\ row["F_Score"] = 4)
        /\ (row["R_Score"] = 4 /\ row["F_Score"] = 4) =>
              result = IF row["M_Score"] = 4 THEN "Champions"
                       ELSE "Loyal Customers"

\* the call on (4, 2, 4) has returned Others
C18_Witness ==
    /\ pc = "return"
    /\ row["R_Score"] = 4 /\ row["F_Score"] = 2 /\ row["M_Score"] = 4
    /\ result = "Others"

=============================================================================
